---- MODULE Spec2Model ----
(***************************************************************************)
(* Model of src/wallet.py: create_wallet(), run by one or more script      *)
(* processes.  Each process has its own locals and standard output; the     *)
(* processes share the bitcoinlib wallet database of the account they run   *)
(* under (the "wallet store") and the file py-wallet.json of the working    *)
(* directory.  One action per statement of create_wallet; every library or  *)
(* system call either succeeds or raises, and an exception ends the call    *)
(* (the function has no try/except).                                        *)
(***************************************************************************)
EXTENDS Naturals, Sequences, FiniteSets, TLC

\* Bounds of the model.
NumCalls == 2
NumStores == 2
MaxMnemonic == 2

Calls == 1..NumCalls
Stores == 1..NumStores

VARIABLES pc, home, mnemonic, wallet, key, stdout, raised, ret, log, store, file

vars == <<pc, home, mnemonic, wallet, key, stdout, raised, ret, log, store, file>>

----------------------------------------------------------------------------
\* Values of the library, as far as create_wallet depends on them.

\* Mnemonic().generate(): the phrases the generator can yield.
MnemonicPhrase(i) == "mnemonic-" \o ToString(i)
Mnemonics == { MnemonicPhrase(i) : i \in 1..MaxMnemonic }

\* The arguments of Wallet.create on line 9.
WalletName == "richarddushime"
WitnessType == "segwit"
Network == "testnet"

\* Mnemonic -> seed -> master private key -> first key -> address / WIF:
\* each stage a deterministic, injective function of the stage before.
ToSeed(m) == "seed(" \o m \o ")"
MasterKey(m) == "tprv(" \o ToSeed(m) \o ")"
FirstKeyPath == "m/84'/1'/0'/0/0"
ChildPrivate(master, path) == "priv(" \o master \o "," \o path \o ")"
Wif(private) == "wif(" \o private \o ")"
Address(private) == "tb1q(pub(" \o private \o "))"

\* wallet.get_key(): the key object whose .address and .wif the script reads.
KeyOf(w) ==
  LET private == ChildPrivate(w.main_key, FirstKeyPath)
  IN [address |-> Address(private), wif |-> Wif(private)]

\* The exceptions a call can end with.
WalletExistsError == "WalletError: Wallet with name 'richarddushime' already exists"
EntropyError == "OSError: urandom"
DatabaseError == "OperationalError: database"
FileError == "OSError: py-wallet.json"
EnvFaults == {EntropyError, DatabaseError, FileError}

\* The text written on line 20, as the pieces the expression concatenates.
RecordHead == "{\"address\": \""
RecordMid == "\", \"privateKey\": \""
RecordTail == "\"}"
RecordText_Swapped(k) == <<RecordHead, k.wif, RecordMid, k.address, RecordTail>>

RecordText(k) == <<RecordHead, k.address, RecordMid, k.wif, RecordTail>>

\* The lines printed on lines 15 and 16, as the arguments of print.
AddressLine(k) == <<"| Public Address |", k.address, "|">>
KeyLine(k) == <<"| Private Key     |", k.wif, "|">>

\* Reading py-wallet.json back: the records it holds (none when the text is
\* not one well-formed object of this shape).
ParseRecord(data) ==
  IF /\ Len(data) = Len(RecordText([address |-> "", wif |-> ""]))
     /\ data[1] = RecordHead
     /\ data[3] = RecordMid
     /\ data[5] = RecordTail
  THEN << [address |-> data[2], privateKey |-> data[4]] >>
  ELSE << >>

\* A write of the pieces p at offset 0 of a file holding f (the file was
\* opened without O_APPEND, so bytes beyond the written ones stay).
Overlay(f, p) == p \o SubSeq(f, Len(p) + 1, Len(f))

IsPrefix(p, s) == Len(p) <= Len(s) /\ SubSeq(s, 1, Len(p)) = p

WalletsNamed(s, name) == { w \in store[s] : w.name = name }

----------------------------------------------------------------------------
Init ==
  /\ pc = [c \in Calls |-> "L6"]
  /\ home \in [Calls -> Stores]
  /\ mnemonic = [c \in Calls |-> << >>]
  /\ wallet = [c \in Calls |-> << >>]
  /\ key = [c \in Calls |-> << >>]
  /\ stdout = [c \in Calls |-> << >>]
  /\ raised = [c \in Calls |-> ""]
  /\ ret = [c \in Calls |-> << >>]
  /\ log = [c \in Calls |-> << >>]
  /\ store = [s \in Stores |-> {}]
  /\ file = [exists |-> FALSE, data |-> << >>]

\* An exception leaves create_wallet: nothing catches it.
Raise_Swallowed(c, step, error) ==
  /\ pc' = [pc EXCEPT ![c] = "failed"]
  /\ UNCHANGED raised
  /\ log' = [log EXCEPT ![c] = Append(@, <<step, "error">>)]

Raise(c, step, error) ==
  /\ pc' = [pc EXCEPT ![c] = "failed"]
  /\ raised' = [raised EXCEPT ![c] = error]
  /\ log' = [log EXCEPT ![c] = Append(@, <<step, "error">>)]

Advance(c, step, next) ==
  /\ pc' = [pc EXCEPT ![c] = next]
  /\ log' = [log EXCEPT ![c] = Append(@, <<step, "ok">>)]
  /\ UNCHANGED raised

\* Line 6: mnemonic = Mnemonic().generate()
Generate(c) ==
  /\ pc[c] = "L6"
  /\ \/ \E m \in Mnemonics :
          /\ mnemonic' = [mnemonic EXCEPT ![c] = <<m>>]
          /\ Advance(c, "generate", "L9")
     \/ /\ Raise(c, "generate", EntropyError)
        /\ UNCHANGED mnemonic
  /\ UNCHANGED <<home, wallet, key, stdout, ret, store, file>>

\* Wallet.create that does not look for a wallet of the same name.
Create_NoExistsCheck(c) ==
  /\ pc[c] = "L9"
  /\ LET w == [name |-> WalletName,
               id |-> Cardinality(store[home[c]]) + 1,
               main_key |-> MasterKey(mnemonic[c][1]),
               witness_type |-> WitnessType,
               network |-> Network,
               keys |-> {}]
     IN /\ store' = [store EXCEPT ![home[c]] = @ \cup {w}]
        /\ wallet' = [wallet EXCEPT ![c] = <<[name |-> w.name, id |-> w.id]>>]
        /\ Advance(c, "create", "L12")
  /\ UNCHANGED <<home, mnemonic, key, stdout, ret, file>>

\* Line 9: wallet = Wallet.create('richarddushime', witness_type='segwit',
\*                                keys=mnemonic, network='testnet')
Create(c) ==
  /\ pc[c] = "L9"
  /\ \/ /\ WalletsNamed(home[c], WalletName) # {}
        /\ Raise(c, "create", WalletExistsError)
        /\ UNCHANGED <<wallet, store>>
     \/ /\ WalletsNamed(home[c], WalletName) = {}
        /\ \/ LET w == [name |-> WalletName,
                        id |-> Cardinality(store[home[c]]) + 1,
                        main_key |-> MasterKey(mnemonic[c][1]),
                        witness_type |-> WitnessType,
                        network |-> Network,
                        keys |-> {}]
              IN /\ store' = [store EXCEPT ![home[c]] = @ \cup {w}]
                 /\ wallet' = [wallet EXCEPT ![c] = <<[name |-> w.name, id |-> w.id]>>]
                 /\ Advance(c, "create", "L12")
           \/ /\ Raise(c, "create", DatabaseError)
              /\ UNCHANGED <<wallet, store>>
  /\ UNCHANGED <<home, mnemonic, key, stdout, ret, file>>

\* The row of the wallet store a Wallet object refers to.
Stored(c) ==
  CHOOSE w \in store[home[c]] : w.name = wallet[c][1].name /\ w.id = wallet[c][1].id

\* Line 12: key = wallet.get_key()
GetKey(c) ==
  /\ pc[c] = "L12"
  /\ \/ LET w == Stored(c)
        IN /\ store' = [store EXCEPT ![home[c]] =
                          (@ \ {w}) \cup {[w EXCEPT !.keys = @ \cup {FirstKeyPath}]}]
           /\ key' = [key EXCEPT ![c] = <<KeyOf(w)>>]
           /\ Advance(c, "get_key", "L15")
     \/ /\ Raise(c, "get_key", DatabaseError)
        /\ UNCHANGED <<key, store>>
  /\ UNCHANGED <<home, mnemonic, wallet, stdout, ret, file>>

\* Line 15: print("| Public Address |", key.address, "|")
PrintAddress(c) ==
  /\ pc[c] = "L15"
  /\ stdout' = [stdout EXCEPT ![c] = Append(@, AddressLine(key[c][1]))]
  /\ Advance(c, "print_address", "L16")
  /\ UNCHANGED <<home, mnemonic, wallet, key, ret, store, file>>

\* Line 16: print("| Private Key     |", key.wif, "|")
PrintKey(c) ==
  /\ pc[c] = "L16"
  /\ stdout' = [stdout EXCEPT ![c] = Append(@, KeyLine(key[c][1]))]
  /\ Advance(c, "print_key", "L19")
  /\ UNCHANGED <<home, mnemonic, wallet, key, ret, store, file>>

\* The file opened before the private key is printed.
Open_BeforePrintKey(c) ==
  /\ pc[c] \in {"L16", "L19"}
  /\ \/ /\ file' = [exists |-> TRUE, data |-> << >>]
        /\ Advance(c, "open", "L20")
     \/ /\ Raise(c, "open", FileError)
        /\ UNCHANGED file
  /\ UNCHANGED <<home, mnemonic, wallet, key, stdout, ret, store>>

\* The file opened in append mode: its content is kept.
Open_Append(c) ==
  /\ pc[c] = "L19"
  /\ \/ /\ file' = [exists |-> TRUE, data |-> file.data]
        /\ Advance(c, "open", "L20")
     \/ /\ Raise(c, "open", FileError)
        /\ UNCHANGED file
  /\ UNCHANGED <<home, mnemonic, wallet, key, stdout, ret, store>>

\* Line 19: with open('py-wallet.json', 'w') as file:
Open(c) ==
  /\ pc[c] = "L19"
  /\ \/ /\ file' = [exists |-> TRUE, data |-> << >>]
        /\ Advance(c, "open", "L20")
     \/ /\ Raise(c, "open", FileError)
        /\ UNCHANGED file
  /\ UNCHANGED <<home, mnemonic, wallet, key, stdout, ret, store>>

\* The argument of file.write on line 20.
WriteText_Mnemonic(c) ==
  <<RecordHead, key[c][1].address, RecordMid, mnemonic[c][1], RecordTail>>

WriteText(c) == RecordText(key[c][1])

\* A write that removes the wallet from the store when it fails.
Write_Rollback(c) ==
  /\ pc[c] = "L20"
  /\ LET text == WriteText(c)
     IN \E n \in 0..Len(text) :
          /\ file' = [exists |-> TRUE, data |-> Overlay(file.data, SubSeq(text, 1, n))]
          /\ IF n = Len(text)
             THEN /\ Advance(c, "write", "done")
                  /\ ret' = [ret EXCEPT ![c] = <<"None">>]
                  /\ UNCHANGED store
             ELSE /\ Raise(c, "write", FileError)
                  /\ store' = [store EXCEPT ![home[c]] = @ \ {Stored(c)}]
                  /\ UNCHANGED ret
  /\ UNCHANGED <<home, mnemonic, wallet, key, stdout>>

\* Line 20 and the end of the with block: file.write(...), then the flush and
\* close; the function then returns None.
Write(c) ==
  /\ pc[c] = "L20"
  /\ LET text == WriteText(c)
     IN \E n \in 0..Len(text) :
          /\ file' = [exists |-> TRUE, data |-> Overlay(file.data, SubSeq(text, 1, n))]
          /\ IF n = Len(text)
             THEN /\ Advance(c, "write", "done")
                  /\ ret' = [ret EXCEPT ![c] = <<"None">>]
             ELSE /\ Raise(c, "write", FileError)
                  /\ UNCHANGED ret
  /\ UNCHANGED <<home, mnemonic, wallet, key, stdout, store>>

Next ==
  \E c \in Calls :
    \/ Generate(c)
    \/ Create(c)
    \/ GetKey(c)
    \/ PrintAddress(c)
    \/ PrintKey(c)
    \/ Open(c)
    \/ Write(c)

Spec == Init /\ [][Next]_vars

----------------------------------------------------------------------------
\* What the state says about a call.
Ended(c) == pc[c] \in {"done", "failed"}
Steps(c) == { log[c][i][1] : i \in 1..Len(log[c]) }
Succeeded(c, step) == \E i \in 1..Len(log[c]) : log[c][i] = <<step, "ok">>
FailedAt(c, step) == \E i \in 1..Len(log[c]) : log[c][i] = <<step, "error">>
Moved(c) == pc'[c] # pc[c]
Chunks(data) == { data[i] : i \in 1..Len(data) }

\* The order of the statements of create_wallet.
StepOrder == <<"generate", "create", "get_key", "print_address", "print_key", "open", "write">>

\* C1: when a create_wallet call completes successfully, py-wallet.json holds
\* exactly one record with exactly the fields address and privateKey, whose
\* values are the address and the WIF of the key of the wallet created by that
\* call, the same two values the call printed.
C1_RecordOfCompletedCall ==
  [][ \A c \in Calls :
        (Moved(c) /\ pc'[c] = "done") =>
          LET recs == ParseRecord(file'.data)
              k == KeyOf(Stored(c))
          IN /\ file'.exists
             /\ Len(recs) = 1
             /\ DOMAIN recs[1] = {"address", "privateKey"}
             /\ recs[1].address = k.address
             /\ recs[1].privateKey = k.wif
             /\ Stored(c).main_key = MasterKey(mnemonic[c][1])
             /\ stdout[c] = << <<"| Public Address |", recs[1].address, "|">>,
                               <<"| Private Key     |", recs[1].privateKey, "|">> >>
    ]_vars

C1_Witness ==
  \E c \in Calls :
    /\ pc[c] = "done"
    /\ ParseRecord(file.data) = << [address |-> key[c][1].address,
                                    privateKey |-> key[c][1].wif] >>
    /\ Len(stdout[c]) = 2

\* C2: every successful create_wallet hands the mnemonic to its caller: it is
\* in the return value, in a printed line or in the written record.
Outputs(c) ==
  Chunks(ret[c]) \cup UNION { Chunks(stdout[c][i]) : i \in 1..Len(stdout[c]) }
                 \cup Chunks(file.data)

C2_MnemonicHandedOut ==
  \A c \in Calls : pc[c] = "done" => mnemonic[c][1] \in Outputs(c)

\* C3: a call in which mnemonic generation, wallet creation or key retrieval
\* fails ends there with the error raised: nothing was printed or returned, no
\* value stands in for the missing one, no step is tried twice, the call never
\* resumes, and the failing step leaves py-wallet.json as it was.
C3_FailedEarly(c) ==
  FailedAt(c, "generate") \/ FailedAt(c, "create") \/ FailedAt(c, "get_key")

C3_State ==
  \A c \in Calls :
    C3_FailedEarly(c) =>
      /\ pc[c] = "failed"
      /\ raised[c] \in EnvFaults \cup {WalletExistsError}
      /\ stdout[c] = << >>
      /\ ret[c] = << >>
      /\ Steps(c) \cap {"open", "write"} = {}
      /\ Cardinality(Steps(c)) = Len(log[c])
      /\ FailedAt(c, "generate") => mnemonic[c] = << >>
      /\ FailedAt(c, "create") => wallet[c] = << >>
      /\ key[c] = << >>

C3_Step ==
  \A c \in Calls :
    /\ (Moved(c) /\ pc[c] \in {"L6", "L9", "L12"} /\ pc'[c] = "failed") =>
         (file' = file /\ stdout' = stdout)
    /\ pc[c] = "failed" =>
         (pc'[c] = "failed" /\ log'[c] = log[c] /\ raised'[c] = raised[c])

C3_ErrorsSurface == [](C3_State) /\ [][C3_Step]_vars

C3_Witness ==
  \E c \in Calls :
    /\ FailedAt(c, "get_key")
    /\ raised[c] = DatabaseError
    /\ ParseRecord(file.data) # << >>

\* The secrets derived from the mnemonics, and what the program has persisted.
Seeds == { ToSeed(m) : m \in Mnemonics }
MasterKeys == { MasterKey(m) : m \in Mnemonics }
FirstPrivates == { ChildPrivate(k, FirstKeyPath) : k \in MasterKeys }
Wifs == { Wif(p) : p \in FirstPrivates }
StoredKeys == UNION { { w.main_key : w \in store[s] } : s \in Stores }
Persisted == StoredKeys \cup Chunks(file.data)

C4_State ==
  /\ \A c \in Calls :
       Succeeded(c, "create") =>
         \E w \in store[home[c]] : w.main_key = MasterKey(mnemonic[c][1])
  /\ StoredKeys \subseteq MasterKeys
  /\ Persisted \cap (Mnemonics \cup Seeds \cup FirstPrivates) = {}

C4_Step ==
  \A c \in Calls :
    (Moved(c) /\ pc'[c] = "done") =>
      /\ key[c][1].wif \in Wifs
      /\ key[c][1].wif \in Chunks(file'.data)

C5_CallsIndependent ==
  \A c \in Calls : (Ended(c) /\ raised[c] \notin EnvFaults) => pc[c] = "done"

\* C6: the outcome of a call is a function of its mnemonic: two calls that
\* drew the same mnemonic and met no fault of their environment end alike.
C6_OutcomeFunctionOfMnemonic ==
  \A c, d \in Calls :
    ( /\ Ended(c) /\ Ended(d)
      /\ mnemonic[c] # << >> /\ mnemonic[c] = mnemonic[d]
      /\ raised[c] \notin EnvFaults /\ raised[d] \notin EnvFaults )
    => (pc[c] = pc[d] /\ key[c] = key[d] /\ stdout[c] = stdout[d])

\* C7: the steps of a call happen in the order generate, create, get_key,
\* print address, print key, open, write, each once and only after the one
\* before it succeeded; the wallet is made from the generated mnemonic, the
\* key is that of the call's wallet, and the file is not opened before both
\* lines are printed.
C7_StepOrder ==
  \A c \in Calls :
    /\ Len(log[c]) <= Len(StepOrder)
    /\ \A i \in 1..Len(log[c]) :
         /\ log[c][i][1] = StepOrder[i]
         /\ i < Len(log[c]) => log[c][i][2] = "ok"
    /\ wallet[c] # << >> =>
         /\ Succeeded(c, "generate")
         /\ Stored(c).main_key = MasterKey(mnemonic[c][1])
    /\ key[c] # << >> =>
         /\ Succeeded(c, "create")
         /\ key[c][1] = KeyOf(Stored(c))
    /\ IsPrefix(stdout[c], IF key[c] = << >> THEN << >>
                           ELSE <<AddressLine(key[c][1]), KeyLine(key[c][1])>>)
    /\ Len(stdout[c]) >= 1 <=> Succeeded(c, "print_address")
    /\ Len(stdout[c]) = 2 <=> Succeeded(c, "print_key")
    /\ "open" \in Steps(c) => Len(stdout[c]) = 2
    /\ pc[c] = "done" <=> Succeeded(c, "write")

C7_Witness ==
  \E c \in Calls : pc[c] = "done" /\ Len(log[c]) = Len(StepOrder)

\* C8: a store never holds two wallets named 'richarddushime'; a call that
\* reaches wallet creation when the store already holds one fails there with
\* nothing printed and py-wallet.json untouched, so at most one call per store
\* creates a wallet and at most one succeeds.
C8_State ==
  \A s \in Stores :
    /\ Cardinality(WalletsNamed(s, WalletName)) <= 1
    /\ Cardinality({ c \in Calls : home[c] = s /\ Succeeded(c, "create") }) <= 1
    /\ Cardinality({ c \in Calls : home[c] = s /\ pc[c] = "done" }) <= 1

C8_Step ==
  \A c \in Calls :
    (Moved(c) /\ pc[c] = "L9" /\ WalletsNamed(home[c], WalletName) # {}) =>
      /\ pc'[c] = "failed"
      /\ raised'[c] = WalletExistsError
      /\ stdout'[c] = << >>
      /\ file' = file
      /\ store' = store

C8_OneWalletPerStore == [](C8_State) /\ [][C8_Step]_vars

C8_Witness ==
  \E c, d \in Calls :
    /\ home[c] = home[d]
    /\ pc[d] = "done"
    /\ raised[c] = WalletExistsError
    /\ stdout[c] = << >>

\* C9: py-wallet.json is replaced, never appended to: it never holds more
\* than one record; opening it discards what it held; the write into the
\* emptied file leaves that run's record when it succeeds and a proper prefix
\* of it (nothing, or a part) when it fails.
C9_State == Len(file.data) <= Len(RecordText([address |-> "", wif |-> ""]))

C9_Step ==
  \A c \in Calls :
    /\ (Moved(c) /\ pc[c] = "L19" /\ pc'[c] = "L20") =>
         file' = [exists |-> TRUE, data |-> << >>]
    /\ (Moved(c) /\ pc[c] = "L20" /\ file.data = << >>) =>
         /\ IsPrefix(file'.data, RecordText(key[c][1]))
         /\ pc'[c] = "done" <=> file'.data = RecordText(key[c][1])
         /\ pc'[c] = "failed" => ParseRecord(file'.data) = << >>

C9_FileReplaced == [](C9_State) /\ [][C9_Step]_vars

C9_Witness ==
  \E c, d \in Calls :
    /\ pc[d] = "done"
    /\ FailedAt(c, "write")
    /\ file.exists
    /\ ParseRecord(file.data) = << >>
    /\ IsPrefix(file.data, RecordText(key[c][1]))

\* C10: no rollback: a call that wrote to py-wallet.json has its wallet in the
\* store and printed both lines before; a call that failed at opening or
\* writing the file keeps its wallet in the store and its two printed lines,
\* and ends with the error raised.
C10_NoRollback ==
  \A c \in Calls :
    /\ "write" \in Steps(c) =>
         /\ \E w \in store[home[c]] : w.name = WalletName /\ w.id = wallet[c][1].id
         /\ stdout[c] = <<AddressLine(key[c][1]), KeyLine(key[c][1])>>
    /\ (FailedAt(c, "open") \/ FailedAt(c, "write")) =>
         /\ \E w \in store[home[c]] :
              /\ w.name = WalletName /\ w.id = wallet[c][1].id
              /\ w.main_key = MasterKey(mnemonic[c][1])
         /\ stdout[c] = <<AddressLine(key[c][1]), KeyLine(key[c][1])>>
         /\ pc[c] = "failed"
         /\ raised[c] = FileError

C10_Witness ==
  \E c \in Calls :
    /\ FailedAt(c, "write")
    /\ raised[c] = FileError
    /\ Stored(c).main_key = MasterKey(mnemonic[c][1])
    /\ Len(stdout[c]) = 2

====
